---- MODULE Spec2Model ----
(***************************************************************************)
(* xderived: a registry of derived-variable rules (core.py) and the        *)
(* per-dataset accessor that resolves them on demand with a cache          *)
(* (accessor.py).                                                          *)
(*                                                                         *)
(* A rule (DerivedVariable) is a record [name, dependencies]; the registry *)
(* is the insertion-ordered dict of rules, modelled as a sequence of rules *)
(* with distinct names; the dataset is the set of names it holds           *)
(* (variables and coords); a payload (DataArray) is a record [id, name]    *)
(* whose id is the identity of the object.  A rule's func is any callable: *)
(* what it does when it is called (return a DataArray, raise, return       *)
(* something else) is chosen by the environment at each resolution.        *)
(***************************************************************************)
EXTENDS Naturals, Sequences, FiniteSets, TLC

VARIABLES
    registry,   \* DerivedVariableRegistry._registry, in insertion order
    ds,         \* names in the accessor's dataset (ds.variables, ds.coords)
    cache,      \* DerivedAccessor._cache: name -> payload or NoPayload
    nextId,     \* number of payload objects created so far
    last,       \* the most recent call and what it returned or raised
    threads     \* the resolutions in progress when two threads share the session

vars == <<registry, ds, cache, nextId, last, threads>>

----------------------------------------------------------------------------
(* Bounds of the model *)

\* Total number of declared dependencies over the rules registered through
\* the session.
MaxEdges == 2

\* Total number of declared dependencies over the rules of a registry the
\* graph queries are applied to.
GraphEdges == 3

\* Number of payload objects one session creates.
MaxInst == 2

\* declared dependencies in a registry of a session that is queried
QueryEdges == 1

\* declared dependencies in a registry of a session that two threads share
RaceEdges == 1

\* declared dependencies in a registry whose descents are followed step by
\* step
WalkEdges == 2

\* frames a thread can stack; a descent never needs as many
MaxDepth == 9

\* The names of the model, in lexicographic order.
NameOrder == <<"a", "b", "c">>

Names == {NameOrder[i] : i \in DOMAIN NameOrder}

\* Names under which the session registers rules; "a" stays a base name.
SessionRules == {"b", "c"}

\* Names the session's dataset may hold: the base name, and one of the names
\* that rules are registered under.
SessionBase == {"a", "b"}

\* Names that are coordinates when the dataset holds them; the other names it
\* holds are data variables.
CoordNames == {"a"}

\* The three names the recursive get_dependencies of the accessor tests for;
\* the names of the model stand for them, in their lexicographic order.
mixing_ratio_from_specific_humidity == "a"

relative_humidity_from_mixing_ratios == "b"

saturation_mixing_ratio == "c"

\* Keys and values of the attrs of rules and of the DataArrays funcs return
AttrKeys == {"units", "long_name"}

AttrValues == {"K", "Pa"}

\* The names a func may have given the DataArray it returns; "None" is no name
ReturnedNames == Names \cup {"None"}

\* What a rule's func does when called: return a DataArray, raise, or return
\* something that is not a DataArray.
Funcs == {"returns_array", "raises", "returns_other"}

----------------------------------------------------------------------------
(* Values *)

Range(s) == {s[i] : i \in DOMAIN s}

RECURSIVE SeqsUpTo(_, _)
SeqsUpTo(S, n) ==
    IF n = 0 THEN {<<>>}
    ELSE LET shorter == SeqsUpTo(S, n - 1)
         IN  shorter \cup {Append(s, x) : s \in {t \in shorter : Len(t) = n - 1}, x \in S}

NoRule == [name |-> "", dependencies |-> <<>>]

DerivedVariable(name, dependencies) ==
    [name |-> name, dependencies |-> dependencies]

NoPayload == [id |-> 0, name |-> ""]

EmptyCache == [name \in Names |-> NoPayload]

NoExc ==
    [type |-> "none", name |-> "", circular |-> FALSE, path |-> {},
     form |-> "none", missing |-> <<>>, missing_base |-> <<>>, unavailable |-> <<>>]

RegistrationError(name) == [NoExc EXCEPT !.type = "RegistrationError", !.name = name]

\* KeyError raised by d[key] for a dict d without that key
KeyError(key) == [NoExc EXCEPT !.type = "KeyError", !.name = key]

\* A dict of get_dependencies without entries
NoEntries == [dep \in {} |-> FALSE]

\* No dict returned by get_dependencies
NoInfo == [status |-> "none", name |-> "", dependencies |-> NoEntries, extra |-> NoEntries]

\* {"status": "cycle_detected"}
CycleDetected == [NoInfo EXCEPT !.status = "cycle_detected"]

\* {"name": ..., "description": ..., "dependencies": dependencies_info}; the
\* description is left out; extra holds the keys a caller adds to the dict
DependenciesInfo(variable_name, dependencies_info) ==
    [NoInfo EXCEPT !.status = "info", !.name = variable_name,
                   !.dependencies = dependencies_info]

\* {"status": status} and {"status": status, "dependencies": info}
DependencyEntry(status, info) == [status |-> status, dependencies |-> info]

AttributeError(name) == [NoExc EXCEPT !.type = "AttributeError", !.name = name]

\* ComputationError("Circular dependency detected for variable {name}. Path: ...")
CircularDependency(name, resolving_stack) ==
    [NoExc EXCEPT !.type = "ComputationError", !.name = name, !.circular = TRUE,
                  !.path = resolving_stack]

\* Variant of ComputationError whose message leaves the rule's name out.
ComputationError_anonymous(name, why) ==
    [NoExc EXCEPT !.type = "ComputationError", !.form = why]

\* ComputationError raised for a func that raised ("raised") or returned
\* something that is not a DataArray ("not_dataarray")
ComputationError(name, why) ==
    [NoExc EXCEPT !.type = "ComputationError", !.name = name, !.form = why]

\* MissingDependencyError("... Missing dependencies: [...]")
MissingFlat(name, current_var_missing_base) ==
    [NoExc EXCEPT !.type = "MissingDependencyError", !.name = name, !.form = "flat",
                  !.missing = current_var_missing_base]

\* MissingDependencyError("... Failed to resolve dependencies: ...")
MissingCombined(name, missing_base_deps, unavailable_derived_deps) ==
    [NoExc EXCEPT !.type = "MissingDependencyError", !.name = name, !.form = "combined",
                  !.missing_base = missing_base_deps,
                  !.unavailable = unavailable_derived_deps]

----------------------------------------------------------------------------
(* Lexicographic order and sorted() *)

Lex(name) == CHOOSE i \in DOMAIN NameOrder : NameOrder[i] = name

RECURSIVE InsertSorted(_, _)
InsertSorted(s, x) ==
    IF s = <<>> THEN <<x>>
    ELSE IF Lex(x) < Lex(Head(s)) THEN <<x>> \o s
    ELSE <<Head(s)>> \o InsertSorted(Tail(s), x)

RECURSIVE sorted(_)
sorted(s) ==
    IF s = <<>> THEN <<>> ELSE InsertSorted(sorted(Tail(s)), Head(s))

RECURSIVE SetToSeq(_)
SetToSeq(S) ==
    IF S = {} THEN <<>>
    ELSE LET x == CHOOSE y \in S : TRUE IN <<x>> \o SetToSeq(S \ {x})

----------------------------------------------------------------------------
(* DerivedVariableRegistry (core.py) *)

RegisteredNames(reg) == {reg[i].name : i \in DOMAIN reg}

get_variable(reg, name) ==
    IF name \in RegisteredNames(reg)
    THEN reg[CHOOSE i \in DOMAIN reg : reg[i].name = name]
    ELSE NoRule

\* Variant of register that replaces the stored rule before it raises.
register_replacing(reg, derived_var) ==
    IF derived_var.name \in RegisteredNames(reg)
    THEN [exc |-> RegistrationError(derived_var.name),
          reg |-> [i \in DOMAIN reg |->
                     IF reg[i].name = derived_var.name THEN derived_var ELSE reg[i]]]
    ELSE [exc |-> NoExc, reg |-> Append(reg, derived_var)]

\* register: [exc, reg]
register(reg, derived_var) ==
    IF derived_var.name \in RegisteredNames(reg)
    THEN [exc |-> RegistrationError(derived_var.name), reg |-> reg]
    ELSE [exc |-> NoExc, reg |-> Append(reg, derived_var)]

\* Variant of unregister that refuses a name other rules depend on.
unregister_checking_dependents(reg, name) ==
    IF \/ name \notin RegisteredNames(reg)
       \/ \E i \in DOMAIN reg : reg[i].name # name /\ name \in Range(reg[i].dependencies)
    THEN [exc |-> RegistrationError(name), reg |-> reg]
    ELSE [exc |-> NoExc, reg |-> SelectSeq(reg, LAMBDA r : r.name # name)]

\* unregister: [exc, reg]
unregister(reg, name) ==
    IF name \notin RegisteredNames(reg)
    THEN [exc |-> RegistrationError(name), reg |-> reg]
    ELSE [exc |-> NoExc, reg |-> SelectSeq(reg, LAMBDA r : r.name # name)]

RECURSIVE _is_computable(_, _, _)
RECURSIVE _is_computable_deps(_, _, _, _)
RECURSIVE _is_computable_deps_no_break(_, _, _, _)

\* Variant of the loop that goes on after a failing dependency, so that the
\* last dependency decides.
_is_computable_deps_no_break(reg, dependencies, i, resolving_stack) ==
    IF i > Len(dependencies) THEN TRUE
    ELSE IF i < Len(dependencies)
         THEN _is_computable_deps_no_break(reg, dependencies, i + 1, resolving_stack)
    ELSE IF dependencies[i] \in ds THEN TRUE
    ELSE IF get_variable(reg, dependencies[i]) # NoRule
         THEN _is_computable(reg, dependencies[i], resolving_stack)
    ELSE FALSE

\* the loop over var_def.dependencies from position i, with its breaks
_is_computable_deps(reg, dependencies, i, resolving_stack) ==
    IF i > Len(dependencies) THEN TRUE
    ELSE IF dependencies[i] \in ds
         THEN _is_computable_deps(reg, dependencies, i + 1, resolving_stack)
    ELSE IF get_variable(reg, dependencies[i]) # NoRule
         THEN IF ~_is_computable(reg, dependencies[i], resolving_stack)
              THEN FALSE
              ELSE _is_computable_deps(reg, dependencies, i + 1, resolving_stack)
    ELSE FALSE

_is_computable(reg, var_name, resolving_stack) ==
    IF var_name \in resolving_stack THEN FALSE
    ELSE IF get_variable(reg, var_name) = NoRule THEN FALSE
    ELSE _is_computable_deps(reg, get_variable(reg, var_name).dependencies, 1,
                             resolving_stack \cup {var_name})

\* Variant of list_all_computable that returns the names in registry order.
list_all_computable_unsorted(reg) ==
    SelectSeq([i \in DOMAIN reg |-> reg[i].name],
              LAMBDA name : _is_computable(reg, name, {}))

list_all_computable(reg) ==
    sorted(SelectSeq([i \in DOMAIN reg |-> reg[i].name],
                     LAMBDA name : _is_computable(reg, name, {})))

\* bool(ds): a Dataset is true when it holds a data variable
truth(dataset) == dataset \ CoordNames # {}

RECURSIVE get_dependencies(_, _, _, _)
RECURSIVE get_dependencies_raising_on_cycle(_, _, _, _)
RECURSIVE get_dependencies_sharing_stack(_, _, _, _)

\* Variant of get_dependencies that raises for a name met again instead of
\* returning the cycle_detected dict.
get_dependencies_raising_on_cycle(reg, variable_name, recursive, _resolving_stack) ==
    IF variable_name \in _resolving_stack \/ get_variable(reg, variable_name) = NoRule
    THEN [exc |-> RegistrationError(variable_name), info |-> NoInfo]
    ELSE
    LET dependencies == get_variable(reg, variable_name).dependencies
        is_in_ds(dep_name) == truth(ds) /\ dep_name \in ds
        nested(dep_name) ==
            get_dependencies(reg, dep_name, TRUE, _resolving_stack \cup {variable_name})
        expanded == SelectSeq(dependencies,
                       LAMBDA dep_name : /\ recursive
                                         /\ ~is_in_ds(dep_name)
                                         /\ get_variable(reg, dep_name) # NoRule)
        raising == SelectSeq(expanded, LAMBDA dep_name : nested(dep_name).exc # NoExc)
        dependencies_info ==
            [dep_name \in Range(dependencies) |->
                IF is_in_ds(dep_name)
                THEN DependencyEntry("base_variable_in_dataset", NoInfo)
                ELSE IF get_variable(reg, dep_name) # NoRule
                THEN DependencyEntry("derived_variable",
                                     IF recursive THEN nested(dep_name).info ELSE NoInfo)
                ELSE IF truth(ds)
                THEN DependencyEntry("missing_base_variable", NoInfo)
                ELSE DependencyEntry("unknown_or_missing_base_variable", NoInfo)]
    IN  IF raising # <<>>
        THEN [exc |-> nested(Head(raising)).exc, info |-> NoInfo]
        ELSE [exc |-> NoExc, info |-> DependenciesInfo(variable_name, dependencies_info)]

\* Variant of get_dependencies in which one set is shared by the whole
\* traversal instead of a copy per branch: the dependencies of a rule are on
\* it while any of them is expanded.
get_dependencies_sharing_stack(reg, variable_name, recursive, _resolving_stack) ==
    IF variable_name \in _resolving_stack
    THEN [exc |-> NoExc, info |-> CycleDetected]
    ELSE IF get_variable(reg, variable_name) = NoRule
    THEN [exc |-> RegistrationError(variable_name), info |-> NoInfo]
    ELSE
    LET dependencies == get_variable(reg, variable_name).dependencies
        is_in_ds(dep_name) == truth(ds) /\ dep_name \in ds
        nested(dep_name) ==
            get_dependencies(reg, dep_name, TRUE,
                             _resolving_stack \cup {variable_name}
                                 \cup (Range(dependencies) \ {dep_name}))
        expanded == SelectSeq(dependencies,
                       LAMBDA dep_name : /\ recursive
                                         /\ ~is_in_ds(dep_name)
                                         /\ get_variable(reg, dep_name) # NoRule)
        raising == SelectSeq(expanded, LAMBDA dep_name : nested(dep_name).exc # NoExc)
        dependencies_info ==
            [dep_name \in Range(dependencies) |->
                IF is_in_ds(dep_name)
                THEN DependencyEntry("base_variable_in_dataset", NoInfo)
                ELSE IF get_variable(reg, dep_name) # NoRule
                THEN DependencyEntry("derived_variable",
                                     IF recursive THEN nested(dep_name).info ELSE NoInfo)
                ELSE IF truth(ds)
                THEN DependencyEntry("missing_base_variable", NoInfo)
                ELSE DependencyEntry("unknown_or_missing_base_variable", NoInfo)]
    IN  IF raising # <<>>
        THEN [exc |-> nested(Head(raising)).exc, info |-> NoInfo]
        ELSE [exc |-> NoExc, info |-> DependenciesInfo(variable_name, dependencies_info)]

\* registry.get_dependencies(variable_name, recursive, ds, _resolving_stack):
\* [exc, info]
get_dependencies(reg, variable_name, recursive, _resolving_stack) ==
    IF variable_name \in _resolving_stack
    THEN [exc |-> NoExc, info |-> CycleDetected]
    ELSE IF get_variable(reg, variable_name) = NoRule
    THEN [exc |-> RegistrationError(variable_name), info |-> NoInfo]
    ELSE
    LET dependencies == get_variable(reg, variable_name).dependencies
        is_in_ds(dep_name) == truth(ds) /\ dep_name \in ds
        nested(dep_name) ==
            get_dependencies(reg, dep_name, TRUE, _resolving_stack \cup {variable_name})
        expanded == SelectSeq(dependencies,
                       LAMBDA dep_name : /\ recursive
                                         /\ ~is_in_ds(dep_name)
                                         /\ get_variable(reg, dep_name) # NoRule)
        raising == SelectSeq(expanded, LAMBDA dep_name : nested(dep_name).exc # NoExc)
        dependencies_info ==
            [dep_name \in Range(dependencies) |->
                IF is_in_ds(dep_name)
                THEN DependencyEntry("base_variable_in_dataset", NoInfo)
                ELSE IF get_variable(reg, dep_name) # NoRule
                THEN DependencyEntry("derived_variable",
                                     IF recursive THEN nested(dep_name).info ELSE NoInfo)
                ELSE IF truth(ds)
                THEN DependencyEntry("missing_base_variable", NoInfo)
                ELSE DependencyEntry("unknown_or_missing_base_variable", NoInfo)]
    IN  IF raising # <<>>
        THEN [exc |-> nested(Head(raising)).exc, info |-> NoInfo]
        ELSE [exc |-> NoExc, info |-> DependenciesInfo(variable_name, dependencies_info)]

\* the keys of get_dependencies(variable_name, recursive=True, ds=ds,
\* _resolving_stack=set())["dependencies"]: [exc, keys]
dependencies_keys(reg, variable_name) ==
    LET r == get_dependencies(reg, variable_name, TRUE, {})
    IN  IF r.exc # NoExc THEN [exc |-> r.exc, keys |-> {}]
        ELSE IF r.info.status # "info"
        THEN [exc |-> KeyError("dependencies"), keys |-> {}]
        ELSE [exc |-> NoExc, keys |-> DOMAIN r.info.dependencies]

\* MIX_RATIO_SPEC_HUM_DEF, SAT_MIX_RATIO_DEF and RH_MIX_RATIO_DEF, in the
\* order of the list standard_vars, each with those of its dependencies that
\* are among Names
standard_vars ==
    <<DerivedVariable(mixing_ratio_from_specific_humidity, <<>>),
      DerivedVariable(saturation_mixing_ratio, <<>>),
      DerivedVariable(relative_humidity_from_mixing_ratios,
                      <<mixing_ratio_from_specific_humidity, saturation_mixing_ratio>>)>>

\* What the try statement around registry.register(var_def) raises when
\* register raised exc: matching exc evaluates registry.RegistrationError,
\* and the registry object has no attribute of that name
except_registry_RegistrationError(exc) == AttributeError("RegistrationError")

RECURSIVE register_standard_from(_, _)
\* the loop of register_standard_variables from position i: [exc, reg]
register_standard_from(reg, i) ==
    IF i > Len(standard_vars) THEN [exc |-> NoExc, reg |-> reg]
    ELSE LET r == register(reg, standard_vars[i])
         IN  IF r.exc = NoExc THEN register_standard_from(r.reg, i + 1)
             ELSE [exc |-> except_registry_RegistrationError(r.exc), reg |-> r.reg]

\* standard_variables.register_standard_variables(): [exc, reg]
register_standard_variables(reg) == register_standard_from(reg, 1)

\* registry.get_metadata(variable_name): None (NoRule) or the dict of the
\* rule, of which the name and the dependencies are kept
get_metadata(reg, variable_name) == get_variable(reg, variable_name)

\* the fields search_variables looks at when none are given
DefaultSearchFields ==
    <<"name", "description", "standard_name", "long_name", "formula_str">>

\* getattr(var_def, field_name, None) as a string, "" when it is None or
\* not an attribute: the description of a rule defaults to its name, the
\* other optional fields to None
field_value(var_def, field_name) ==
    IF field_name \in {"name", "description"} THEN var_def.name ELSE ""

\* keyword_lower in field_value.lower() for a non-empty field_value; the
\* names are single lower-case letters
contains(value, keyword) == value # "" /\ keyword \in {"", value}

\* registry.search_variables(keyword, search_fields): the metadata of the
\* rules with a matching field, in registration order
search_variables(reg, keyword, search_fields) ==
    SelectSeq(reg, LAMBDA var_def :
        \E i \in DOMAIN search_fields :
            contains(field_value(var_def, search_fields[i]), keyword))

----------------------------------------------------------------------------
(* DerivedAccessor (accessor.py) *)

\* exc is what get_status raises instead of returning the dict
NoStatus ==
    [exc |-> NoExc, computable |-> FALSE, missing_dependencies |-> <<>>, reason |-> "none"]

\* Variant of cycle_involves without the test for the queried name itself.
cycle_involves_dependents_only(reg, variable_name, var_name) ==
    IF get_variable(reg, var_name) = NoRule THEN [exc |-> NoExc, flag |-> FALSE]
    ELSE LET k == dependencies_keys(reg, var_name)
         IN  [exc |-> k.exc, flag |-> variable_name \in k.keys]

\* the test that sets cycle_detected_for_var[0] when var_name is met again:
\* [exc, flag]
cycle_involves(reg, variable_name, var_name) ==
    IF var_name = variable_name THEN [exc |-> NoExc, flag |-> TRUE]
    ELSE IF get_variable(reg, var_name) = NoRule THEN [exc |-> NoExc, flag |-> FALSE]
    ELSE LET k == dependencies_keys(reg, var_name)
         IN  [exc |-> k.exc, flag |-> variable_name \in k.keys]

RECURSIVE _can_compute_recursive(_, _, _, _, _)
RECURSIVE _can_compute_deps(_, _, _, _, _, _, _)
RECURSIVE _can_compute_deps_ignoring_nested(_, _, _, _, _, _, _)

\* Variant of _can_compute_deps that does not take the result of the nested
\* call into all_deps_met.
_can_compute_deps_ignoring_nested(reg, variable_name, dependencies, i, stack, all_deps_met, acc) ==
    IF i > Len(dependencies) THEN [ok |-> all_deps_met, acc |-> acc]
    ELSE IF dependencies[i] \in ds
         THEN _can_compute_deps(reg, variable_name, dependencies, i + 1, stack,
                                all_deps_met, acc)
    ELSE IF get_variable(reg, dependencies[i]) # NoRule
         THEN LET r == _can_compute_recursive(reg, variable_name, dependencies[i],
                                              stack, acc)
              IN  _can_compute_deps(reg, variable_name, dependencies, i + 1, stack,
                                    all_deps_met, r.acc)
    ELSE _can_compute_deps(reg, variable_name, dependencies, i + 1, stack, FALSE,
                           [acc EXCEPT !.missing_deps = Append(@, dependencies[i])])

\* acc = [missing_deps, cycle, exc]: the closure's missing_deps list,
\* cycle_detected_for_var[0] and the exception raised so far, which ends the
\* call; the result is [ok, acc]
_can_compute_deps(reg, variable_name, dependencies, i, stack, all_deps_met, acc) ==
    IF i > Len(dependencies) THEN [ok |-> all_deps_met, acc |-> acc]
    ELSE IF dependencies[i] \in ds
         THEN _can_compute_deps(reg, variable_name, dependencies, i + 1, stack,
                                all_deps_met, acc)
    ELSE IF get_variable(reg, dependencies[i]) # NoRule
         THEN LET r == _can_compute_recursive(reg, variable_name, dependencies[i],
                                              stack, acc)
              IN  _can_compute_deps(reg, variable_name, dependencies, i + 1, stack,
                                    all_deps_met /\ r.ok, r.acc)
    ELSE _can_compute_deps(reg, variable_name, dependencies, i + 1, stack, FALSE,
                           [acc EXCEPT !.missing_deps = Append(@, dependencies[i])])

_can_compute_recursive(reg, variable_name, var_name, stack, acc) ==
    IF var_name \in stack
    THEN LET c == cycle_involves(reg, variable_name, var_name)
         IN  [ok |-> FALSE,
              acc |-> [acc EXCEPT !.cycle = @ \/ c.flag,
                                  !.exc = IF @ # NoExc THEN @ ELSE c.exc]]
    ELSE IF get_variable(reg, var_name) = NoRule
    THEN [ok |-> FALSE,
          acc |-> IF var_name \notin ds
                  THEN [acc EXCEPT !.missing_deps = Append(@, var_name)]
                  ELSE acc]
    ELSE _can_compute_deps(reg, variable_name,
                           get_variable(reg, var_name).dependencies, 1,
                           stack \cup {var_name}, TRUE, acc)

get_status(reg, variable_name) ==
    IF get_variable(reg, variable_name) = NoRule
    THEN [NoStatus EXCEPT !.reason = "not_registered"]
    ELSE LET r == _can_compute_recursive(reg, variable_name, variable_name, {},
                                         [missing_deps |-> <<>>, cycle |-> FALSE,
                                          exc |-> NoExc])
             unique_missing_deps == sorted(SetToSeq(Range(r.acc.missing_deps)))
         IN  IF r.acc.exc # NoExc THEN [NoStatus EXCEPT !.exc = r.acc.exc]
             ELSE
             [exc |-> NoExc,
              computable |-> r.ok,
              missing_dependencies |-> IF r.ok THEN <<>> ELSE unique_missing_deps,
              reason |-> IF r.ok THEN "none"
                         ELSE IF r.acc.cycle THEN "cycle detected"
                         ELSE IF unique_missing_deps # <<>> THEN "deps"
                         ELSE "unknown"]

list_computable(reg) == list_all_computable(reg)

\* What the accessor's get_dependencies returns: the dict of the registry
\* (info) when not recursive, the dict of its dependencies (entries) when
\* recursive
NoTree == [info |-> NoInfo, entries |-> NoEntries]

\* Variant of the accessor's get_dependencies without the special case.
DerivedAccessor_get_dependencies_plain(reg, variable_name, recursive) ==
    LET full_deps_info == get_dependencies(reg, variable_name, recursive, {})
    IN  IF full_deps_info.exc # NoExc THEN [exc |-> full_deps_info.exc, tree |-> NoTree]
        ELSE IF ~recursive
        THEN [exc |-> NoExc, tree |-> [NoTree EXCEPT !.info = full_deps_info.info]]
        ELSE [exc |-> NoExc,
              tree |-> [NoTree EXCEPT !.entries = full_deps_info.info.dependencies]]

\* ds.derived.get_dependencies(variable_name, recursive): [exc, tree]
DerivedAccessor_get_dependencies(reg, variable_name, recursive) ==
    LET full_deps_info == get_dependencies(reg, variable_name, recursive, {})
        deps_to_return == full_deps_info.info.dependencies
        mr_info == deps_to_return[mixing_ratio_from_specific_humidity]
        smr_info_as_sibling == deps_to_return[saturation_mixing_ratio]
    IN  IF full_deps_info.exc # NoExc THEN [exc |-> full_deps_info.exc, tree |-> NoTree]
        ELSE IF ~recursive
        THEN [exc |-> NoExc, tree |-> [NoTree EXCEPT !.info = full_deps_info.info]]
        ELSE IF /\ variable_name = relative_humidity_from_mixing_ratios
                /\ mixing_ratio_from_specific_humidity \in DOMAIN deps_to_return
                /\ saturation_mixing_ratio \in DOMAIN deps_to_return
                /\ mr_info.dependencies # NoInfo
                /\ saturation_mixing_ratio \notin DOMAIN mr_info.dependencies.extra
        THEN [exc |-> NoExc,
              tree |-> [NoTree EXCEPT !.entries =
                  [deps_to_return EXCEPT
                      ![mixing_ratio_from_specific_humidity].dependencies.extra =
                          [key \in {saturation_mixing_ratio} |-> smr_info_as_sibling]]]]
        ELSE [exc |-> NoExc, tree |-> [NoTree EXCEPT !.entries = deps_to_return]]

\* Variant of cached that finds an entry for the requested name only, not
\* for a dependency.
cached_for_request_only(st, name) ==
    IF st.events = <<>> THEN st.cache[name] ELSE NoPayload

\* Variant of cached that never finds an entry.
cached_never(st, name) == NoPayload

\* self._cache[name] if name in self._cache
cached(st, name) == st.cache[name]

\* Variant of is_circular that recognises no message.
is_circular_never(exc) == FALSE

\* "Circular dependency detected" in str(e), for a ComputationError e
is_circular(exc) == exc.circular

\* Variant of current_var_missing_base that stops at the first one.
current_var_missing_base_first(reg, dependencies) ==
    LET all == SelectSeq(dependencies,
                         LAMBDA dep : dep \notin ds /\ get_variable(reg, dep) = NoRule)
    IN  IF all = <<>> THEN <<>> ELSE <<Head(all)>>

\* the dependencies that are neither in the dataset nor registered
current_var_missing_base(reg, dependencies) ==
    SelectSeq(dependencies, LAMBDA dep : dep \notin ds /\ get_variable(reg, dep) = NoRule)

\* Variant of store that keeps only the payload of a rule without
\* dependencies to resolve.
store_leaves_only(st, name, computed_da) ==
    IF st.calls = <<name>>
    THEN [st EXCEPT !.cache[name] = computed_da, !.nextId = computed_da.id]
    ELSE [st EXCEPT !.nextId = computed_da.id]

\* Variant of store that caches the payload as the func returned it, before
\* its name is set.
store_unnamed(st, name, computed_da) ==
    [st EXCEPT !.cache[name] = [computed_da EXCEPT !.name = ""],
               !.nextId = computed_da.id]

\* self._cache[name] = computed_da
store(st, name, computed_da) ==
    [st EXCEPT !.cache[name] = computed_da, !.nextId = computed_da.id]

\* self._cache.clear()
clear_cache(entries) == EmptyCache

\* the dicts with keys among keys and values among values
Dicts(keys, values) == UNION {[chosen -> values] : chosen \in SUBSET keys}

\* Variant of final_attrs in which the rule's attrs win.
final_attrs_rule_first(attrs, computed_da_attrs) ==
    [key \in DOMAIN attrs \cup DOMAIN computed_da_attrs |->
        IF key \in DOMAIN attrs THEN attrs[key] ELSE computed_da_attrs[key]]

\* {**derived_var_def.attrs, **computed_da.attrs}
final_attrs(attrs, computed_da_attrs) ==
    [key \in DOMAIN attrs \cup DOMAIN computed_da_attrs |->
        IF key \in DOMAIN computed_da_attrs THEN computed_da_attrs[key] ELSE attrs[key]]

\* the DataArray a func returned as _compute_derived_variable leaves it:
\* attrs merged, name set
finalized(name, attrs, computed_da) ==
    [name |-> IF computed_da.name = "None" \/ computed_da.name # name
              THEN name ELSE computed_da.name,
     attrs |-> final_attrs(attrs, computed_da.attrs)]

\* Variant of incomplete that looks at the base dependencies only.
incomplete_base_only(missing_base_deps, unavailable_derived_deps) ==
    missing_base_deps # <<>>

\* if missing_base_deps or unavailable_derived_deps
incomplete(missing_base_deps, unavailable_derived_deps) ==
    missing_base_deps # <<>> \/ unavailable_derived_deps # <<>>

\* Variant of remove that leaves the set as it is.
remove_nothing(resolving_stack, name) == resolving_stack

\* resolving_stack.remove(name)
remove(resolving_stack, name) == resolving_stack \ {name}

\* _compute_derived_variable(dep_name, resolving_stack.copy()): the set of the
\* caller after the call, which worked on a copy and left it as callee_stack
copy(resolving_stack, callee_stack) == resolving_stack

\* What a frame of _compute_derived_variable does to its resolving_stack,
\* for the record of a resolution: the set on entry, after the loop over the
\* dependencies, and on exit
Event(kind, name, resolving_stack) ==
    [kind |-> kind, name |-> name, stack |-> resolving_stack]

RECURSIVE _compute_derived_variable(_, _, _, _, _)
RECURSIVE _resolve_dependencies(_, _, _, _, _, _, _, _, _)

\* The session state a resolution threads through its calls:
\* st = [cache, nextId, calls, events], calls being the names whose func was
\* called and events the record of the frames.
\* funcs[name] is what the func of the rule called name does in this
\* resolution.
\* The loop over derived_var_def.dependencies from position i; the result is
\* [exc, st, stack, missing_base_deps, unavailable_derived_deps], exc being
\* the circular-dependency error that ends the loop, if any, and stack the
\* resolving_stack of the frame after the calls it made.
_resolve_dependencies(reg, funcs, name, dependencies, i, resolving_stack, st, missing_base_deps, unavailable_derived_deps) ==
    IF i > Len(dependencies)
    THEN [exc |-> NoExc, st |-> st, stack |-> resolving_stack,
          missing_base_deps |-> missing_base_deps,
          unavailable_derived_deps |-> unavailable_derived_deps]
    ELSE IF dependencies[i] \in ds
    THEN _resolve_dependencies(reg, funcs, name, dependencies, i + 1, resolving_stack, st,
                               missing_base_deps, unavailable_derived_deps)
    ELSE IF get_variable(reg, dependencies[i]) # NoRule
    THEN LET r == _compute_derived_variable(reg, funcs, dependencies[i], resolving_stack, st)
             after == copy(resolving_stack, r.stack)
         IN  IF r.exc = NoExc
             THEN _resolve_dependencies(reg, funcs, name, dependencies, i + 1,
                                        after, r.st, missing_base_deps,
                                        unavailable_derived_deps)
             ELSE IF r.exc.type = "ComputationError" /\ is_circular(r.exc)
             THEN [exc |-> r.exc, st |-> r.st, stack |-> after,
                   missing_base_deps |-> missing_base_deps,
                   unavailable_derived_deps |-> unavailable_derived_deps]
             ELSE _resolve_dependencies(reg, funcs, name, dependencies, i + 1,
                                        after, r.st, missing_base_deps,
                                        Append(unavailable_derived_deps,
                                               [dep |-> dependencies[i],
                                                reason |-> r.exc.type]))
    ELSE _resolve_dependencies(reg, funcs, name, dependencies, i + 1, resolving_stack, st,
                               Append(missing_base_deps, dependencies[i]),
                               unavailable_derived_deps)

\* the result is [exc, value, st, stack]: what is raised or returned, the
\* session state, and the frame's resolving_stack as the call leaves it
_compute_derived_variable(reg, funcs, name, resolving_stack, st) ==
    LET entered == [st EXCEPT !.events = Append(@, Event("entry", name, resolving_stack))]
        derived_var_def == get_variable(reg, name)
        pushed == resolving_stack \cup {name}
        loop == _resolve_dependencies(reg, funcs, name, derived_var_def.dependencies, 1,
                                      pushed, entered, <<>>, <<>>)
        deps == [loop EXCEPT !.st.events = Append(@, Event("loop", name, loop.stack))]
        popped == remove(deps.stack, name)
        missing_now == current_var_missing_base(reg, derived_var_def.dependencies)
        called == [deps.st EXCEPT !.calls = Append(@, name)]
        computed_da == [id |-> deps.st.nextId + 1, name |-> name]
        r == IF cached(st, name) # NoPayload
             THEN [exc |-> NoExc, value |-> cached(st, name), st |-> entered,
                   stack |-> resolving_stack]
             ELSE IF name \in resolving_stack
             THEN [exc |-> CircularDependency(name, resolving_stack), value |-> NoPayload,
                   st |-> entered, stack |-> resolving_stack]
             ELSE IF get_variable(reg, name) = NoRule
             THEN [exc |-> AttributeError(name), value |-> NoPayload, st |-> entered,
                   stack |-> resolving_stack]
             ELSE IF deps.exc # NoExc
             THEN [exc |-> deps.exc, value |-> NoPayload, st |-> deps.st, stack |-> popped]
             ELSE IF incomplete(deps.missing_base_deps, deps.unavailable_derived_deps)
             THEN [exc |-> IF missing_now # <<>>
                           THEN MissingFlat(name, missing_now)
                           ELSE MissingCombined(name, deps.missing_base_deps,
                                                deps.unavailable_derived_deps),
                   value |-> NoPayload, st |-> deps.st, stack |-> popped]
             ELSE IF funcs[name] = "raises"
             THEN [exc |-> ComputationError(name, "raised"), value |-> NoPayload,
                   st |-> called, stack |-> popped]
             ELSE IF funcs[name] = "returns_other"
             THEN [exc |-> ComputationError(name, "not_dataarray"), value |-> NoPayload,
                   st |-> called, stack |-> popped]
             ELSE [exc |-> NoExc, value |-> computed_da,
                   st |-> store(called, name, computed_da),
                   stack |-> popped]
    IN  [r EXCEPT !.st.events = Append(@, Event("exit", name, r.stack))]

\* Variant of __getattr__ without the lookup in the registry.
__getattr__unchecked(reg, funcs, name, st) ==
    LET r == _compute_derived_variable(reg, funcs, name, {}, st)
    IN  [exc |-> r.exc, value |-> r.value, st |-> r.st]

\* Variant of __getattr__ that drops the cache entry of a name it does not
\* find in the registry.
__getattr__invalidating(reg, funcs, name, st) ==
    IF get_variable(reg, name) # NoRule
    THEN LET r == _compute_derived_variable(reg, funcs, name, {}, st)
         IN  [exc |-> r.exc, value |-> r.value, st |-> r.st]
    ELSE [exc |-> AttributeError(name), value |-> NoPayload,
          st |-> [st EXCEPT !.cache[name] = NoPayload]]

\* __getattr__(name) for a variable name: [exc, value, st]
__getattr__(reg, funcs, name, st) ==
    IF get_variable(reg, name) # NoRule
    THEN LET r == _compute_derived_variable(reg, funcs, name, {}, st)
         IN  [exc |-> r.exc, value |-> r.value, st |-> r.st]
    ELSE [exc |-> AttributeError(name), value |-> NoPayload, st |-> st]

----------------------------------------------------------------------------
(* Two threads resolving on one session: _compute_derived_variable step by *)
(* step. A thread is its stack of frames; an object is a DataArray a func  *)
(* returned, which the frame changes in place and the cache refers to.     *)

ThreadIds == {"t1", "t2"}

\* Variant of revisits that finds no name.
revisits_never(name, resolving_stack) == FALSE

\* if name in resolving_stack, the test every descent starts a frame with
revisits(name, resolving_stack) == name \in resolving_stack

\* a frame of _compute_derived_variable(name, resolving_stack) at its start;
\* computed_da is the id of the object its func returned
Frame(name, resolving_stack) ==
    [name |-> name, resolving_stack |-> resolving_stack, pc |-> "cache", i |-> 1,
     missing_base_deps |-> <<>>, unavailable_derived_deps |-> <<>>, computed_da |-> 0]

NoThread ==
    [pc |-> "idle", name |-> "", frames |-> <<>>, exc |-> NoExc, value |-> NoPayload,
     calls |-> <<>>]

NoThreads == [procs |-> [t \in ThreadIds |-> NoThread], objects |-> <<>>]

\* Variant of next_step that stores the DataArray as soon as the func
\* returned it.
next_step_storing_first(pc) ==
    CASE pc = "func" -> "store"
      [] pc = "store" -> "attrs"
      [] pc = "attrs" -> "name"
      [] pc = "name" -> "return"

\* the order of the statements after the func returned a DataArray: merge
\* the attrs, set the name, store in the cache, return
next_step(pc) ==
    CASE pc = "func" -> "attrs"
      [] pc = "attrs" -> "name"
      [] pc = "name" -> "store"
      [] pc = "store" -> "return"

\* the payload the cache entry of an object shows
Payload(objects, id) == [id |-> id, name |-> objects[id].name]

RECURSIVE Leave(_, _, _)
\* The top frame of thread th ends with exc raised or value returned: its
\* caller goes on with the next dependency, notes the dependency as
\* unavailable, or ends with the circular-dependency error in turn; the
\* thread is done when there is no caller.
Leave(th, exc, value) ==
    LET rest == SubSeq(th.frames, 1, Len(th.frames) - 1)
        caller == rest[Len(rest)]
        dep_name == get_variable(registry, caller.name).dependencies[caller.i]
    IN  IF rest = <<>>
        THEN [th EXCEPT !.pc = "done", !.frames = <<>>, !.exc = exc, !.value = value]
        ELSE IF exc = NoExc
        THEN [th EXCEPT !.frames = [rest EXCEPT ![Len(rest)].i = @ + 1]]
        ELSE IF exc.type = "ComputationError" /\ is_circular(exc)
        THEN Leave([th EXCEPT !.frames = rest], exc, NoPayload)
        ELSE [th EXCEPT !.frames =
                 [rest EXCEPT ![Len(rest)].i = @ + 1,
                              ![Len(rest)].unavailable_derived_deps =
                                  Append(@, [dep |-> dep_name, reason |-> exc.type])]]

----------------------------------------------------------------------------
(* The calls *)

NoCall ==
    [op |-> "none", name |-> "", exc |-> NoExc, value |-> NoPayload, calls |-> <<>>,
     events |-> <<>>, metadata |-> NoRule,
     func |-> "not_called", status |-> NoStatus, listing |-> <<>>, flag |-> FALSE,
     tree |-> NoTree,
     attrs |-> NoEntries, returned |-> [name |-> "None", attrs |-> NoEntries],
     payload |-> [name |-> "None", attrs |-> NoEntries]]

RECURSIVE SumLen(_)
SumLen(s) == IF s = <<>> THEN 0 ELSE Len(Head(s)) + SumLen(Tail(s))

\* number of declared dependencies in a registry
Edges(reg) == SumLen([i \in DOMAIN reg |-> reg[i].dependencies])

\* registry.register(DerivedVariable(name, dependencies, func))
Register(name, dependencies) ==
    LET derived_var == DerivedVariable(name, dependencies)
        r == register(registry, derived_var)
    IN  /\ \/ Edges(registry) + Len(dependencies) <= MaxEdges
           \/ derived_var = get_variable(registry, name)
        /\ registry' = r.reg
        /\ last' = [NoCall EXCEPT !.op = "register", !.name = name, !.exc = r.exc]
        /\ UNCHANGED <<threads, ds, cache, nextId>>

\* registry.unregister(name)
Unregister(name) ==
    LET r == unregister(registry, name)
    IN  /\ registry' = r.reg
        /\ last' = [NoCall EXCEPT !.op = "unregister", !.name = name, !.exc = r.exc]
        /\ UNCHANGED <<threads, ds, cache, nextId>>

\* ds.derived.<name>, ds.derived[name]
Resolve(name, funcs) ==
    LET r == __getattr__(registry, funcs, name,
                         [cache |-> cache, nextId |-> nextId, calls |-> <<>>,
                          events |-> <<>>])
    IN  /\ r.st.nextId <= MaxInst
        /\ cache' = r.st.cache
        /\ nextId' = r.st.nextId
        /\ last' = [NoCall EXCEPT !.op = "resolve", !.name = name, !.exc = r.exc,
                                  !.value = r.value, !.calls = r.st.calls,
                                  !.events = r.st.events,
                                  !.func = IF name \in Range(r.st.calls)
                                           THEN funcs[name] ELSE "not_called"]
        /\ UNCHANGED <<threads, registry, ds>>

\* ds.derived.clear_cache()
ClearCache ==
    /\ cache' = clear_cache(cache)
    /\ last' = [NoCall EXCEPT !.op = "clear_cache"]
    /\ UNCHANGED <<threads, registry, ds, nextId>>

\* registry._is_computable(name, ds)
IsComputable(name) ==
    /\ last' = [NoCall EXCEPT !.op = "_is_computable", !.name = name,
                              !.flag = _is_computable(registry, name, {})]
    /\ UNCHANGED <<threads, registry, ds, cache, nextId>>

\* Variant of GetStatus that finds out by resolving the name.
GetStatus_resolving(name) ==
    LET r == __getattr__(registry, [x \in SessionRules |-> "returns_array"], name,
                         [cache |-> cache, nextId |-> nextId, calls |-> <<>>,
                          events |-> <<>>])
    IN  /\ last' = [NoCall EXCEPT !.op = "get_status", !.name = name,
                                  !.status = [NoStatus EXCEPT !.computable = r.exc = NoExc],
                                  !.calls = r.st.calls]
        /\ cache' = IF r.st.nextId <= MaxInst THEN r.st.cache ELSE cache
        /\ nextId' = IF r.st.nextId <= MaxInst THEN r.st.nextId ELSE nextId
        /\ UNCHANGED <<threads, registry, ds>>

\* ds.derived.get_status(name)
GetStatus(name) ==
    /\ last' = [NoCall EXCEPT !.op = "get_status", !.name = name,
                              !.exc = get_status(registry, name).exc,
                              !.status = get_status(registry, name)]
    /\ UNCHANGED <<threads, registry, ds, cache, nextId>>

\* ds.derived.list_computable(), ds.derived.available_variables()
ListComputable ==
    /\ last' = [NoCall EXCEPT !.op = "list_computable",
                              !.listing = list_computable(registry)]
    /\ UNCHANGED <<threads, registry, ds, cache, nextId>>

\* ds.derived.get_dependencies(name, recursive)
GetDependencies(name, recursive) ==
    LET r == DerivedAccessor_get_dependencies(registry, name, recursive)
    IN  /\ last' = [NoCall EXCEPT !.op = "get_dependencies", !.name = name,
                                  !.flag = recursive, !.exc = r.exc, !.tree = r.tree]
        /\ UNCHANGED <<threads, registry, ds, cache, nextId>>

\* standard_variables.register_standard_variables()
RegisterStandardVariables ==
    LET r == register_standard_variables(registry)
    IN  /\ registry' = r.reg
        /\ last' = [NoCall EXCEPT !.op = "register_standard_variables", !.exc = r.exc]
        /\ UNCHANGED <<threads, ds, cache, nextId>>

\* ds.derived.get_metadata(name)
GetMetadata(name) ==
    /\ last' = [NoCall EXCEPT !.op = "get_metadata", !.name = name,
                              !.metadata = get_metadata(registry, name)]
    /\ UNCHANGED <<threads, registry, ds, cache, nextId>>

\* ds.derived.search_variables(keyword, search_fields)
SearchVariables(keyword, search_fields) ==
    /\ last' = [NoCall EXCEPT !.op = "search_variables", !.name = keyword,
                              !.listing = search_variables(registry, keyword,
                                                           search_fields)]
    /\ UNCHANGED <<threads, registry, ds, cache, nextId>>

\* the frame thread t is in
Top(t) == threads.procs[t].frames[Len(threads.procs[t].frames)]

\* thread th with its top frame replaced
SetTop(th, frame) == [th EXCEPT !.frames[Len(th.frames)] = frame]

\* thread t asks for ds.derived.<name>: __getattr__ up to the call of
\* _compute_derived_variable(name, resolving_stack=set())
Call(t, name) ==
    /\ threads.procs[t].pc = "idle"
    /\ threads' = [threads EXCEPT !.procs[t] =
           IF get_variable(registry, name) # NoRule
           THEN [NoThread EXCEPT !.pc = "running", !.name = name,
                                 !.frames = <<Frame(name, {})>>]
           ELSE [NoThread EXCEPT !.pc = "done", !.name = name,
                                 !.exc = AttributeError(name)]]
    /\ UNCHANGED <<registry, ds, cache, nextId, last>>

\* the start of a frame: the cache lookup, the cycle guard, the lookup of
\* the rule, resolving_stack.add(name)
Begin(t) ==
    LET th == threads.procs[t]
        top == Top(t)
    IN  /\ th.pc = "running" /\ top.pc = "cache"
        /\ threads' = [threads EXCEPT !.procs[t] =
               IF cached([cache |-> cache], top.name) # NoPayload
               THEN Leave(th, NoExc, cached([cache |-> cache], top.name))
               ELSE IF revisits(top.name, top.resolving_stack)
               THEN Leave(th, CircularDependency(top.name, top.resolving_stack), NoPayload)
               ELSE IF get_variable(registry, top.name) = NoRule
               THEN Leave(th, AttributeError(top.name), NoPayload)
               ELSE SetTop(th, [top EXCEPT !.resolving_stack = @ \cup {top.name},
                                           !.pc = "loop"])]
        /\ UNCHANGED <<registry, ds, cache, nextId, last>>

\* one pass of the loop over the dependencies, or the test that follows it
Loop(t) ==
    LET th == threads.procs[t]
        top == Top(t)
        dependencies == get_variable(registry, top.name).dependencies
        dep_name == dependencies[top.i]
        missing_now == current_var_missing_base(registry, dependencies)
    IN  /\ th.pc = "running" /\ top.pc = "loop"
        /\ Len(th.frames) < MaxDepth
        /\ threads' = [threads EXCEPT !.procs[t] =
               IF top.i > Len(dependencies)
               THEN IF incomplete(top.missing_base_deps, top.unavailable_derived_deps)
                    THEN Leave(th, IF missing_now # <<>>
                                   THEN MissingFlat(top.name, missing_now)
                                   ELSE MissingCombined(top.name, top.missing_base_deps,
                                                        top.unavailable_derived_deps),
                               NoPayload)
                    ELSE SetTop(th, [top EXCEPT !.pc = "func"])
               ELSE IF dep_name \in ds
               THEN SetTop(th, [top EXCEPT !.i = @ + 1])
               ELSE IF get_variable(registry, dep_name) # NoRule
               THEN [th EXCEPT !.frames = Append(@, Frame(dep_name, top.resolving_stack))]
               ELSE SetTop(th, [top EXCEPT !.i = @ + 1,
                                           !.missing_base_deps = Append(@, dep_name)])]
        /\ UNCHANGED <<registry, ds, cache, nextId, last>>

\* derived_var_def.func(dependencies_ds) and the test of what it returned
CallFunc(t, outcome) ==
    LET th == [threads.procs[t] EXCEPT !.calls = Append(@, Top(t).name)]
        top == Top(t)
        id == Len(threads.objects) + 1
    IN  /\ threads.procs[t].pc = "running" /\ top.pc = "func"
        /\ IF outcome = "returns_array"
           THEN /\ threads' =
                       [threads EXCEPT
                           !.objects = Append(@, [name |-> "None", attrs |-> "returned"]),
                           !.procs[t] = SetTop(th, [top EXCEPT !.computed_da = id,
                                                               !.pc = next_step("func")])]
                /\ nextId' = id
           ELSE /\ threads' =
                       [threads EXCEPT !.procs[t] =
                           Leave(th, ComputationError(top.name,
                                         IF outcome = "raises" THEN "raised"
                                         ELSE "not_dataarray"),
                                 NoPayload)]
                /\ UNCHANGED nextId
        /\ UNCHANGED <<registry, ds, cache, last>>

\* computed_da.attrs = final_attrs
MergeAttrs(t) ==
    LET th == threads.procs[t]
        top == Top(t)
    IN  /\ th.pc = "running" /\ top.pc = "attrs"
        /\ threads' = [threads EXCEPT
               !.objects[top.computed_da].attrs = "merged",
               !.procs[t] = SetTop(th, [top EXCEPT !.pc = next_step("attrs")])]
        /\ UNCHANGED <<registry, ds, cache, nextId, last>>

\* computed_da.name = name; an entry of the cache that refers to the object
\* shows the new name
SetName(t) ==
    LET th == threads.procs[t]
        top == Top(t)
    IN  /\ th.pc = "running" /\ top.pc = "name"
        /\ threads' = [threads EXCEPT
               !.objects[top.computed_da].name = top.name,
               !.procs[t] = SetTop(th, [top EXCEPT !.pc = next_step("name")])]
        /\ cache' = [key \in Names |->
                        IF cache[key].id = top.computed_da
                        THEN [cache[key] EXCEPT !.name = top.name] ELSE cache[key]]
        /\ UNCHANGED <<registry, ds, nextId, last>>

\* self._cache[name] = computed_da
Store(t) ==
    LET th == threads.procs[t]
        top == Top(t)
    IN  /\ th.pc = "running" /\ top.pc = "store"
        /\ cache' = store([cache |-> cache, nextId |-> nextId], top.name,
                          Payload(threads.objects, top.computed_da)).cache
        /\ threads' = [threads EXCEPT
               !.procs[t] = SetTop(th, [top EXCEPT !.pc = next_step("store")])]
        /\ UNCHANGED <<registry, ds, nextId, last>>

\* resolving_stack.remove(name); return computed_da
Return(t) ==
    LET th == threads.procs[t]
        top == Top(t)
    IN  /\ th.pc = "running" /\ top.pc = "return"
        /\ threads' = [threads EXCEPT
               !.procs[t] = Leave(th, NoExc, Payload(threads.objects, top.computed_da))]
        /\ UNCHANGED <<registry, ds, cache, nextId, last>>

\* a frame of one of the graph queries at its start: kind is the function,
\* result what it will return (can_compute_all_deps, all_deps_met)
Walk(kind, name, resolving_stack, recursive) ==
    [kind |-> kind, name |-> name, resolving_stack |-> resolving_stack, pc |-> "enter",
     i |-> 1, result |-> TRUE, recursive |-> recursive]

\* what the loop of a frame runs over: the names of the registry for
\* list_all_computable, the dependencies of the rule for the others
targets(frame) ==
    IF frame.kind = "list_all_computable" THEN [k \in DOMAIN registry |-> registry[k].name]
    ELSE get_variable(registry, frame.name).dependencies

\* thread t calls get_status(name), list_computable() or
\* get_dependencies(name, recursive)
WalkCall(t, kind, name, recursive) ==
    /\ threads.procs[t].pc = "idle"
    /\ threads' = [threads EXCEPT !.procs[t] =
           IF kind = "list_computable"
           THEN [NoThread EXCEPT
                    !.pc = "running",
                    !.frames = <<[Walk("list_all_computable", "", {}, TRUE)
                                     EXCEPT !.pc = "walk"]>>]
           ELSE IF kind = "get_dependencies"
           THEN [NoThread EXCEPT !.pc = "running", !.name = name,
                                 !.frames = <<Walk("get_dependencies", name, {}, recursive)>>]
           ELSE IF get_variable(registry, name) = NoRule
           THEN [NoThread EXCEPT !.pc = "done", !.name = name]
           ELSE [NoThread EXCEPT !.pc = "running", !.name = name,
                                 !.frames = <<Walk("_can_compute_recursive", name, {}, TRUE)>>]]
    /\ UNCHANGED <<registry, ds, cache, nextId, last>>

\* the start of a frame of _is_computable, _can_compute_recursive or
\* get_dependencies: the test for a name met again, the lookup of the rule,
\* the add to the stack
WalkEnter(t) ==
    LET th == threads.procs[t]
        top == Top(t)
        ended == [top EXCEPT !.pc = "end", !.result = FALSE]
    IN  /\ th.pc = "running" /\ top.pc = "enter"
        /\ Len(th.frames) < MaxDepth
        /\ threads' = [threads EXCEPT !.procs[t] =
               IF revisits(top.name, top.resolving_stack)
               THEN IF /\ top.kind = "_can_compute_recursive"
                       /\ top.name # th.name
                       /\ get_variable(registry, top.name) # NoRule
                    THEN [th EXCEPT !.frames =
                             Append(SubSeq(th.frames, 1, Len(th.frames) - 1) \o <<ended>>,
                                    Walk("get_dependencies", top.name, {}, TRUE))]
                    ELSE SetTop(th, ended)
               ELSE IF get_variable(registry, top.name) = NoRule
               THEN IF top.kind = "get_dependencies"
                    THEN [th EXCEPT !.pc = "done", !.frames = <<>>,
                                    !.exc = RegistrationError(top.name)]
                    ELSE SetTop(th, ended)
               ELSE SetTop(th, [top EXCEPT !.resolving_stack = @ \cup {top.name},
                                           !.pc = "walk"])]
        /\ UNCHANGED <<registry, ds, cache, nextId, last>>

\* one pass of the loop of a frame
WalkLoop(t) ==
    LET th == threads.procs[t]
        top == Top(t)
        dep == targets(top)[top.i]
        next == SetTop(th, [top EXCEPT !.i = @ + 1])
        nested(kind, resolving_stack) ==
            [th EXCEPT !.frames = Append(@, Walk(kind, dep, resolving_stack, TRUE))]
    IN  /\ th.pc = "running" /\ top.pc = "walk"
        /\ Len(th.frames) < MaxDepth
        /\ threads' = [threads EXCEPT !.procs[t] =
               IF top.i > Len(targets(top)) THEN SetTop(th, [top EXCEPT !.pc = "end"])
               ELSE IF top.kind = "list_all_computable" THEN nested("_is_computable", {})
               ELSE IF top.kind = "get_dependencies"
               THEN IF truth(ds) /\ dep \in ds THEN next
                    ELSE IF get_variable(registry, dep) # NoRule /\ top.recursive
                    THEN nested(top.kind, top.resolving_stack)
                    ELSE next
               ELSE IF dep \in ds THEN next
               ELSE IF get_variable(registry, dep) # NoRule
               THEN nested(top.kind, top.resolving_stack)
               ELSE IF top.kind = "_is_computable"
               THEN SetTop(th, [top EXCEPT !.pc = "end", !.result = FALSE])
               ELSE SetTop(th, [top EXCEPT !.i = @ + 1, !.result = FALSE])]
        /\ UNCHANGED <<registry, ds, cache, nextId, last>>

\* the return of a frame to its caller: _is_computable breaks on False,
\* _can_compute_recursive notes it and goes on, or returns False itself
\* when the frame was its test for a cycle
WalkReturn(t) ==
    LET th == threads.procs[t]
        top == Top(t)
        rest == SubSeq(th.frames, 1, Len(th.frames) - 1)
        caller == rest[Len(rest)]
    IN  /\ th.pc = "running" /\ top.pc = "end"
        /\ threads' = [threads EXCEPT !.procs[t] =
               IF rest = <<>> THEN [th EXCEPT !.pc = "done", !.frames = <<>>]
               ELSE IF caller.pc = "end" THEN [th EXCEPT !.frames = rest]
               ELSE IF caller.kind = "_is_computable" /\ ~top.result
               THEN [th EXCEPT !.frames =
                        [rest EXCEPT ![Len(rest)].pc = "end", ![Len(rest)].result = FALSE]]
               ELSE [th EXCEPT !.frames =
                        [rest EXCEPT ![Len(rest)].i = @ + 1,
                                     ![Len(rest)].result =
                                         IF caller.kind = "_can_compute_recursive"
                                         THEN @ /\ top.result ELSE @]]]
        /\ UNCHANGED <<registry, ds, cache, nextId, last>>

\* the end of _compute_derived_variable(name) for a rule with these attrs
\* whose func returned computed_da
Finalize(name, attrs, computed_da) ==
    /\ last' = [NoCall EXCEPT !.op = "finalize", !.name = name, !.attrs = attrs,
                              !.returned = computed_da,
                              !.payload = finalized(name, attrs, computed_da)]
    /\ UNCHANGED <<threads, registry, ds, cache, nextId>>

----------------------------------------------------------------------------
(* The session: an accessor on a dataset, the registry starting empty *)

\* what the funcs of the rules do in one resolution: those of the registered
\* rules without a cache entry, the only ones a resolution can call
FuncChoices ==
    {funcs \in [SessionRules -> Funcs] :
        \A name \in SessionRules :
            (get_variable(registry, name) = NoRule \/ cache[name] # NoPayload)
            => funcs[name] = "returns_array"}

Init ==
    /\ registry = <<>>
    /\ ds \in SUBSET SessionBase
    /\ cache = EmptyCache
    /\ nextId = 0
    /\ last = NoCall
    /\ threads = NoThreads

Next ==
    \/ \E name \in SessionRules, dependencies \in SeqsUpTo(Names, MaxEdges) :
           Register(name, dependencies)
    \/ \E name \in Names : Unregister(name)
    \/ \E name \in Names, funcs \in FuncChoices : Resolve(name, funcs)
    \/ ClearCache

Spec == Init /\ [][Next]_vars

----------------------------------------------------------------------------
(* The graph queries, applied to every registry over Names with at most     *)
(* GraphEdges declared dependencies, in every insertion order               *)

RECURSIVE RegistriesOver(_, _)
RegistriesOver(names, edges) ==
    {<<>>} \cup
    UNION {{<<DerivedVariable(name, dependencies)>> \o rest :
                rest \in RegistriesOver(names \ {name}, edges - Len(dependencies))} :
           name \in names, dependencies \in SeqsUpTo(Names, edges)}

InitGraph ==
    /\ registry \in RegistriesOver(Names, GraphEdges)
    /\ ds \in SUBSET Names
    /\ cache = EmptyCache
    /\ nextId = 0
    /\ last = NoCall
    /\ threads = NoThreads

NextGraph ==
    \/ \E name \in Names : IsComputable(name)
    \/ \E name \in Names : GetStatus(name)
    \/ ListComputable

SpecGraph == InitGraph /\ [][NextGraph]_vars

\* The dependency trees of the same registries
NextTree ==
    \E name \in Names, recursive \in BOOLEAN : GetDependencies(name, recursive)

SpecTree == InitGraph /\ [][NextTree]_vars

\* The payloads of every rule attrs and every returned DataArray
NextAttrs ==
    \E name \in Names, attrs \in Dicts(AttrKeys, AttrValues),
       computed_da \in [name : ReturnedNames, attrs : Dicts(AttrKeys, AttrValues)] :
        Finalize(name, attrs, computed_da)

SpecAttrs == Init /\ [][NextAttrs]_vars

\* The graph queries in a session that resolves: every registry of the
\* session rules with at most QueryEdges declared dependencies
InitQueries ==
    /\ registry \in RegistriesOver(SessionRules, QueryEdges)
    /\ ds \in SUBSET SessionBase
    /\ cache = EmptyCache
    /\ nextId = 0
    /\ last = NoCall
    /\ threads = NoThreads

NextQueries ==
    \/ \E name \in Names, funcs \in FuncChoices : Resolve(name, funcs)
    \/ ClearCache
    \/ \E name \in Names : IsComputable(name)
    \/ \E name \in Names : GetStatus(name)
    \/ ListComputable
    \/ \E name \in Names, recursive \in BOOLEAN : GetDependencies(name, recursive)
    \/ \E name \in Names : GetMetadata(name)
    \/ \E keyword \in Names \cup {""}, search_fields \in {DefaultSearchFields, <<"long_name">>} :
           SearchVariables(keyword, search_fields)

SpecQueries == InitQueries /\ [][NextQueries]_vars

\* Two threads, each asking the session for one name, their steps
\* interleaved in every order
InitRace ==
    /\ registry \in RegistriesOver(SessionRules, RaceEdges)
    /\ ds \in SUBSET SessionBase
    /\ cache = EmptyCache
    /\ nextId = 0
    /\ last = NoCall
    /\ threads = NoThreads

NextRace ==
    \E t \in ThreadIds :
        \/ \E name \in Names : Call(t, name)
        \/ Begin(t)
        \/ Loop(t)
        \/ \E outcome \in Funcs : CallFunc(t, outcome)
        \/ MergeAttrs(t)
        \/ SetName(t)
        \/ Store(t)
        \/ Return(t)

SpecRace == InitRace /\ [][NextRace]_vars

\* One thread that makes one call, resolve or a graph query, which then
\* runs to its end: a call that was made keeps taking its steps. The
\* registries are those with at most WalkEdges declared dependencies, the
\* rules registered in the order of their names.
InitDescent ==
    /\ registry \in {reg \in RegistriesOver(Names, WalkEdges) :
                         \A j, k \in DOMAIN reg :
                             j < k => Lex(reg[j].name) < Lex(reg[k].name)}
    /\ ds \in SUBSET SessionBase
    /\ cache = EmptyCache
    /\ nextId = 0
    /\ last = NoCall
    /\ threads = NoThreads

Steps(t) ==
    \/ Begin(t)
    \/ Loop(t)
    \/ \E outcome \in Funcs : CallFunc(t, outcome)
    \/ MergeAttrs(t)
    \/ SetName(t)
    \/ Store(t)
    \/ Return(t)
    \/ WalkEnter(t)
    \/ WalkLoop(t)
    \/ WalkReturn(t)

NextDescent ==
    \/ \E name \in Names : Call("t1", name)
    \/ \E kind \in {"get_status", "list_computable", "get_dependencies"},
          name \in Names, recursive \in BOOLEAN : WalkCall("t1", kind, name, recursive)
    \/ Steps("t1")

SpecDescent == InitDescent /\ [][NextDescent]_vars /\ WF_vars(Steps("t1"))

\* The registry after the import of the package, which registers the
\* standard variables, and what callers do to it
InitStandard ==
    /\ registry = register_standard_variables(<<>>).reg
    /\ ds \in SUBSET SessionBase
    /\ cache = EmptyCache
    /\ nextId = 0
    /\ last = NoCall
    /\ threads = NoThreads

NextStandard ==
    \/ \E name \in Names, dependencies \in SeqsUpTo(Names, MaxEdges) :
           Register(name, dependencies)
    \/ \E name \in Names : Unregister(name)
    \/ RegisterStandardVariables

SpecStandard == InitStandard /\ [][NextStandard]_vars

----------------------------------------------------------------------------
(* Graph notions the properties are stated with *)

Registered(reg, name) == get_variable(reg, name) # NoRule

Deps(reg, name) == Range(get_variable(reg, name).dependencies)

RECURSIVE Closure(_, _)
\* the names reachable from S along succ, S included
Closure(succ, S) ==
    LET T == S \cup UNION {succ[x] : x \in S}
    IN  IF T = S THEN S ELSE Closure(succ, T)

\* the names reachable from name along succ in one step or more
ReachPlus(succ, name) == Closure(succ, succ[name])

\* rule -> the names it declares
DeclaredGraph(reg) == [x \in Names |-> Deps(reg, x)]

\* no rule depends on itself, directly or through other rules
Acyclic(reg) == \A x \in Names : x \notin ReachPlus(DeclaredGraph(reg), x)

\* the unknown-variable, missing-dependency and circular-dependency errors
GraphError(exc) ==
    \/ exc.type \in {"AttributeError", "MissingDependencyError"}
    \/ exc.type = "ComputationError" /\ exc.circular

Resolved == last.op = "resolve" /\ last.exc = NoExc

----------------------------------------------------------------------------
(* Properties *)

\* C1: on an acyclic rule graph, get_status(name).computable is true exactly
\* when resolving name raises none of the unknown-variable,
\* missing-dependency and circular-dependency errors.
C1_StatusMatchesResolve ==
    (last.op = "resolve" /\ Acyclic(registry)) =>
        (get_status(registry, last.name).computable <=> ~GraphError(last.exc))

\* C2: a resolve of a cached name returns the cached instance and calls no
\* func, so two consecutive resolves of a name return the identical instance;
\* the resolve that follows clear_cache() calls the rule's func again and
\* returns an instance that did not exist before.
C2_CachedInstanceUntilCleared ==
    [][(last'.op = "resolve" /\ last'.exc = NoExc) =>
          /\ cache[last'.name] # NoPayload =>
                (last'.value = cache[last'.name] /\ last'.calls = <<>>)
          /\ (Resolved /\ last.name = last'.name) =>
                (last'.value = last.value /\ last'.calls = <<>>)
          /\ last.op = "clear_cache" =>
                /\ last'.name \in Range(last'.calls)
                /\ last'.value.id > nextId
                /\ \A name \in Names : cache[name] = NoPayload]_vars

\* C2 witness: a second instance was computed for a name while nothing else
\* is cached, which takes a clear_cache() after the first.
C2_Witness ==
    /\ Resolved
    /\ last.calls = <<last.name>>
    /\ last.value.id = 2
    /\ cache[last.name] = last.value
    /\ \A name \in Names \ {last.name} : cache[name] = NoPayload

\* C3: register of a name that is present raises RegistrationError and
\* leaves the registry as it was (the rule stored first is still the one
\* get_variable returns); unregister of an absent name raises
\* RegistrationError and removes nothing.
C3_FailedMutationKeepsRegistry ==
    [][/\ (last'.op = "register" /\ Registered(registry, last'.name)) =>
             /\ last'.exc = RegistrationError(last'.name)
             /\ registry' = registry
             /\ get_variable(registry', last'.name) = get_variable(registry, last'.name)
       /\ (last'.op = "unregister" /\ ~Registered(registry, last'.name)) =>
             /\ last'.exc = RegistrationError(last'.name)
             /\ registry' = registry]_vars

\* C3 witness: a register was refused for a name whose rule is still stored,
\* with another rule registered beside it.
C3_Witness ==
    /\ last.op = "register"
    /\ last.exc.type = "RegistrationError"
    /\ Registered(registry, last.name)
    /\ Len(registry) = 2

\* rule -> its declared dependencies that are registered rules and not in
\* the dataset
DerivedGraph(reg) ==
    [x \in Names |-> {d \in Deps(reg, x) : d \notin ds /\ Registered(reg, d)}]

\* names declared by the rule that are neither in the dataset nor registered
Absent(reg, name) ==
    SelectSeq(get_variable(reg, name).dependencies,
              LAMBDA d : d \notin ds /\ ~Registered(reg, d))

\* C4: when a rule that is not cached declares names that are neither in the
\* dataset nor registered, and every other dependency is in the dataset or
\* resolves, resolve raises the MissingDependencyError that lists exactly
\* those names, all of them, in declared order.
C4_MissingListedExactly ==
    [][(/\ last'.op = "resolve"
        /\ Registered(registry, last'.name)
        /\ cache[last'.name] = NoPayload
        /\ Absent(registry, last'.name) # <<>>
        /\ \A d \in DerivedGraph(registry)[last'.name] : cache'[d] # NoPayload)
       => /\ last'.exc = MissingFlat(last'.name, Absent(registry, last'.name))
          /\ \A d \in Range(last'.exc.missing) : d \notin ds]_vars

\* C4 witness: a rule with one dependency in the dataset and one absent was
\* resolved, and only the absent one is listed.
C4_Witness ==
    /\ last.op = "resolve"
    /\ last.exc.form = "flat"
    /\ Len(last.exc.missing) = 1
    /\ Len(get_variable(registry, last.name).dependencies) = 2
    /\ \E d \in Deps(registry, last.name) : d \in ds

\* rule that is not cached -> its dependencies that resolve descends into
LiveGraph(reg, entries) ==
    [x \in Names |->
        IF Registered(reg, x) /\ entries[x] = NoPayload
        THEN {d \in DerivedGraph(reg)[x] : entries[d] = NoPayload}
        ELSE {}]

\* resolving name descends into a rule that is already being resolved
GuardFires(reg, entries, name) ==
    /\ Registered(reg, name)
    /\ entries[name] = NoPayload
    /\ \E y \in Closure(LiveGraph(reg, entries), {name}) :
           y \in ReachPlus(LiveGraph(reg, entries), y)

\* C5: when the descent from name meets a rule that is being resolved, the
\* top-level resolve raises the circular-dependency error, which names a
\* rule that lies on a cycle and a path that holds that rule and the
\* requested name; it is not turned into a MissingDependencyError.
C5_CircularErrorPropagates ==
    [][(last'.op = "resolve" /\ GuardFires(registry, cache, last'.name))
       => /\ last'.exc.type = "ComputationError"
          /\ last'.exc.circular
          /\ last'.exc.name \in last'.exc.path
          /\ last'.name \in last'.exc.path
          /\ last'.exc.path \subseteq Closure(LiveGraph(registry, cache), {last'.name})
          /\ last'.exc.name \in ReachPlus(LiveGraph(registry, cache), last'.exc.name)]_vars

\* C5 witness: the error was raised for a cycle of two rules, the guard
\* firing one call below the top.
C5_Witness ==
    /\ last.op = "resolve"
    /\ last.exc.circular
    /\ last.exc.path = {"b", "c"}
    /\ last.exc.name = last.name

\* rule that is not in the dataset -> its dependencies that are rules and
\* not in the dataset
CycleGraph(reg) ==
    [x \in Names |-> IF x \in ds THEN {} ELSE DerivedGraph(reg)[x]]

\* C6: a rule on a dependency cycle none of whose members is in the dataset
\* has get_status computable = false with the cycle reason.
C6_CycleMembersReportCycle ==
    (last.op = "get_status" /\ last.name \in ReachPlus(CycleGraph(registry), last.name))
        => (~last.status.computable /\ last.status.reason = "cycle detected")

\* C6 witness: the status of a rule on a cycle through other rules only.
C6_Witness ==
    /\ last.op = "get_status"
    /\ last.status.reason = "cycle detected"
    /\ last.name \notin Deps(registry, last.name)
    /\ Len(registry) = 3

\* C7: after a successful resolve(name) the cache holds name and every
\* registered rule, not in the dataset, that name depends on directly or
\* transitively.
C7_DependenciesCached ==
    Resolved =>
        /\ cache[last.name] # NoPayload
        /\ \A d \in ReachPlus(DerivedGraph(registry), last.name) : cache[d] # NoPayload

\* C7 as amended: after a successful resolve(name) the cache holds the
\* returned payload under name, every rule whose func was called during the
\* call, and every registered dependency, not in the dataset, of such a rule.
C7_ComputedRulesCached ==
    Resolved =>
        /\ cache[last.name] = last.value
        /\ \A x \in Range(last.calls) :
              /\ cache[x] # NoPayload
              /\ \A d \in DerivedGraph(registry)[x] : cache[d] # NoPayload

\* C7 witness: one call computed a rule and the rule it depends on, and
\* both are cached.
C7_Witness ==
    /\ Resolved
    /\ Len(last.calls) = 2
    /\ \A x \in Range(last.calls) : cache[x] # NoPayload
    /\ last.calls[2] = last.name
    /\ last.calls[1] \in Deps(registry, last.name)

RECURSIVE StatedComputable(_, _, _)
\* a base name in the dataset, or a rule not yet on the path all of whose
\* dependencies are computable
StatedComputable(reg, name, path) ==
    \/ name \in ds
    \/ /\ Registered(reg, name)
       /\ name \notin path
       /\ \A d \in Deps(reg, name) : StatedComputable(reg, d, path \cup {name})

RECURSIVE RuleComputable(_, _, _)
\* a rule not yet on the path each of whose dependencies is in the dataset
\* or is such a rule
RuleComputable(reg, name, path) ==
    /\ Registered(reg, name)
    /\ name \notin path
    /\ \A d \in Deps(reg, name) : d \in ds \/ RuleComputable(reg, d, path \cup {name})

\* C8: _is_computable(name) holds exactly when name is a base name in the
\* dataset or a rule all of whose dependencies are computable with no rule
\* met twice along the path.
C8_ComputableAsStated ==
    last.op = "_is_computable" => (last.flag <=> StatedComputable(registry, last.name, {}))

\* C8 as amended: _is_computable(name) holds exactly when name is a
\* registered rule each of whose dependencies is in the dataset or is a
\* registered rule computable in the same sense, no rule met twice along the
\* path; a name that is not registered is not computable, in the dataset or
\* not.
C8_ComputableRule ==
    last.op = "_is_computable" => (last.flag <=> RuleComputable(registry, last.name, {}))

\* C8 witness: a name in the dataset with an unsatisfied rule of its own is
\* reported not computable, while a rule that declares it is computable.
C8_Witness ==
    /\ last.op = "_is_computable"
    /\ last.name \in ds
    /\ ~last.flag
    /\ Registered(registry, last.name)
    /\ \E x \in Names \ {last.name} :
          last.name \in Deps(registry, x) /\ _is_computable(registry, x, {})

RECURSIVE LeastComputable(_, _)
\* the least set S of rules whose every dependency is in the dataset or in S
LeastComputable(reg, S) ==
    LET T == {x \in RegisteredNames(reg) : \A d \in Deps(reg, x) : d \in ds \/ d \in S}
    IN  IF T = S THEN S ELSE LeastComputable(reg, T)

\* C9: list_computable returns, in lexicographic order and each once, the
\* rules of the least set S such that every dependency of a rule of S is in
\* the dataset or in S.
C9_ListIsSortedLeastSet ==
    last.op = "list_computable" =>
        /\ Range(last.listing) = LeastComputable(registry, {})
        /\ \A i, j \in DOMAIN last.listing :
              i < j => Lex(last.listing[i]) < Lex(last.listing[j])

\* C9 witness: two computable rules listed in an order other than the one
\* they were registered in, beside a rule left out.
C9_Witness ==
    /\ last.op = "list_computable"
    /\ Len(last.listing) = 2
    /\ Len(registry) = 3
    /\ \E i, j \in DOMAIN registry :
          /\ i < j
          /\ Lex(registry[i].name) > Lex(registry[j].name)
          /\ {registry[i].name, registry[j].name} = Range(last.listing)

\* C10: unregister(B) succeeds whenever B is registered, whatever depends on
\* it; right after it every rule that declares B, B not being in the
\* dataset, is not computable with B among its missing dependencies; and
\* registering B's rule again gives every name the status it had before.
C10_UnregisterIsLazy ==
    [][(last'.op = "unregister" /\ Registered(registry, last'.name))
       => LET B == last'.name
              again == register(registry', get_variable(registry, B))
          IN  /\ last'.exc = NoExc
              /\ registry' = SelectSeq(registry, LAMBDA r : r.name # B)
              /\ \A C \in RegisteredNames(registry') :
                    (B \in Deps(registry', C) /\ B \notin ds)
                    => /\ ~get_status(registry', C).computable
                       /\ B \in Range(get_status(registry', C).missing_dependencies)
                       /\ ~_is_computable(registry', C, {})
              /\ again.exc = NoExc
              /\ \A C \in Names :
                    /\ get_status(again.reg, C) = get_status(registry, C)
                    /\ _is_computable(again.reg, C, {}) = _is_computable(registry, C, {})]_vars

\* C10 witness: a rule was unregistered that a computable rule depended on,
\* and the dependent is still registered.
C10_Witness ==
    /\ last.op = "unregister"
    /\ last.exc = NoExc
    /\ last.name \notin ds
    /\ \E C \in RegisteredNames(registry) :
          /\ last.name \in Deps(registry, C)
          /\ get_status(register(registry, DerivedVariable(last.name, <<>>)).reg, C).computable

\* C11: when the func of the requested rule is called and raises, resolve
\* fails with the ComputationError that names the rule and wraps the func's
\* exception, and the rule's name is not in the cache afterwards.
C11_FuncErrorReported ==
    (last.op = "resolve" /\ last.func = "raises")
    => /\ last.exc.type = "ComputationError"
       /\ last.exc.name = last.name
       /\ last.exc.form = "raised"
       /\ ~last.exc.circular
       /\ last.value = NoPayload
       /\ cache[last.name] = NoPayload

\* C11 witness: the func of the requested rule raised after the rule's
\* dependency had been computed.
C11_Witness ==
    /\ last.op = "resolve"
    /\ last.func = "raises"
    /\ last.exc.name = last.name
    /\ Len(last.calls) = 2
    /\ last.calls[2] = last.name
    /\ cache[last.name] = NoPayload

\* C12: resolving a name no rule is registered under raises AttributeError,
\* also when the name is in the dataset or in the cache, and leaves the
\* cache and the registry as they were.
C12_UnknownNameRejected ==
    [][(last'.op = "resolve" /\ ~Registered(registry, last'.name))
       => /\ last'.exc = AttributeError(last'.name)
          /\ last'.value = NoPayload
          /\ last'.calls = <<>>
          /\ cache' = cache
          /\ nextId' = nextId
          /\ registry' = registry]_vars

\* C12 witness: a name of the dataset that no rule is registered under was
\* asked for, with a payload in the cache and a rule in the registry.
C12_Witness ==
    /\ last.op = "resolve"
    /\ last.exc = AttributeError(last.name)
    /\ last.name \in ds
    /\ ~Registered(registry, last.name)
    /\ registry # <<>>
    /\ \E name \in Names : cache[name] # NoPayload

\* C14: once name is cached, every later resolve(name) returns the cached
\* payload without calling a func, whatever was registered or unregistered
\* in between.
C14_CachedAlwaysReturned ==
    [][(last'.op = "resolve" /\ cache[last'.name] # NoPayload)
       => /\ last'.exc = NoExc
          /\ last'.value = cache[last'.name]
          /\ last'.calls = <<>>]_vars

\* C14 as amended: a cache entry stays as it is until clear_cache, whatever
\* is registered, unregistered or resolved; resolve(name) of a cached name
\* returns the entry without calling a func while a rule is registered under
\* name, and raises AttributeError, the entry left in place, while none is.
C14_EntriesFinal ==
    [][/\ \A name \in Names :
             (cache[name] # NoPayload /\ last'.op # "clear_cache")
             => cache'[name] = cache[name]
       /\ (last'.op = "resolve" /\ cache[last'.name] # NoPayload)
          => IF Registered(registry, last'.name)
             THEN /\ last'.exc = NoExc
                  /\ last'.value = cache[last'.name]
                  /\ last'.calls = <<>>
                  /\ nextId' = nextId
             ELSE /\ last'.exc = AttributeError(last'.name)
                  /\ cache' = cache]_vars

\* C14 witness: a cached payload was returned for a name whose rule has been
\* replaced since by one that cannot be computed.
C14_Witness ==
    /\ Resolved
    /\ last.calls = <<>>
    /\ last.value = cache[last.name]
    /\ Absent(registry, last.name) # <<>>

\* C17: when the func of a dependency was called and did not produce a
\* payload, resolve of the dependent fails with ComputationError.
C17_DependencyFailurePropagates ==
    (/\ last.op = "resolve"
     /\ \E d \in Range(last.calls) \ {last.name} : cache[d] = NoPayload)
    => last.exc.type = "ComputationError"

\* C18: when a rule has a dependency that is neither in the dataset nor
\* registered and a registered dependency that did not resolve, the
\* MissingDependencyError is the combined one, naming both.
C18_CombinedMessage ==
    (/\ last.op = "resolve"
     /\ last.exc.type = "MissingDependencyError"
     /\ last.exc.name = last.name
     /\ Absent(registry, last.name) # <<>>
     /\ \E d \in DerivedGraph(registry)[last.name] : cache[d] = NoPayload)
    => /\ last.exc.form = "combined"
       /\ last.exc.missing_base = Absent(registry, last.name)
       /\ {u.dep : u \in Range(last.exc.unavailable)}
             = {d \in DerivedGraph(registry)[last.name] : cache[d] = NoPayload}

\* C19: every cache entry is a payload a func returned, named as its key; a
\* resolve that fails leaves the entry of the requested name as it was, and
\* every payload created during a resolve, failed or not, is in the cache
\* afterwards beside the entries that were there before.
C19_CacheHoldsCompletedPayloads ==
    [][/\ \A key \in Names :
             cache'[key] # NoPayload
             => (cache'[key].name = key /\ cache'[key].id \in 1..nextId')
       /\ last'.op = "resolve"
          => /\ last'.exc # NoExc => cache'[last'.name] = cache[last'.name]
             /\ \A key \in Names : cache[key] # NoPayload => cache'[key] = cache[key]
             /\ {cache'[key].id : key \in {k \in Names : cache'[k] # cache[k]}}
                   = (nextId + 1)..nextId'
             /\ \A key \in Names :
                   cache'[key] # cache[key] => key \in Range(last'.calls)]_vars

\* C19 witness: a resolve failed in the func of the requested rule and the
\* dependency computed on the way is cached, the requested name is not.
C19_Witness ==
    /\ last.op = "resolve"
    /\ last.exc.type = "ComputationError"
    /\ Len(last.calls) = 2
    /\ cache[last.calls[1]] # NoPayload
    /\ cache[last.calls[1]].name = last.calls[1]
    /\ cache[last.name] = NoPayload

\* C15: get_status and list_computable raise nothing, whatever the name, the
\* registry and the dataset are; get_status returns a status and
\* list_computable a list of registered names.
C15_QueriesNeverRaise ==
    /\ last.op = "get_status"
       => /\ last.exc = NoExc
          /\ last.status.exc = NoExc
          /\ last.status.computable \in BOOLEAN
          /\ last.status.reason # "none" <=> ~last.status.computable
    /\ last.op = "list_computable"
       => /\ last.exc = NoExc
          /\ Range(last.listing) \subseteq RegisteredNames(registry)

\* C15 witness: the status of a rule that reaches a cycle it is not part of
\* and a name that is not registered, which is where get_status asks the
\* registry for the dependencies of the name it met again.
C15_Witness ==
    /\ last.op = "get_status"
    /\ last.exc = NoExc
    /\ last.name \notin ReachPlus(CycleGraph(registry), last.name)
    /\ \E x \in ReachPlus(CycleGraph(registry), last.name) :
          x \in ReachPlus(CycleGraph(registry), x)
    /\ \E x \in Deps(registry, last.name) : ~Registered(registry, x) /\ x \notin ds
    /\ ~last.status.computable

\* C16: a status that is not computable has the reason not_registered for a
\* name without a rule, and for a rule either deps, with missing names, or
\* the cycle reason, the latter only with a cycle reachable from the name.
C16_ReasonFromFixedSet ==
    (last.op = "get_status" /\ ~last.status.computable)
    => /\ last.status.reason \in {"not_registered", "deps", "cycle detected"}
       /\ last.status.reason = "not_registered" <=> ~Registered(registry, last.name)
       /\ last.status.reason = "deps" => last.status.missing_dependencies # <<>>
       /\ last.status.reason = "cycle detected"
          => \E x \in Closure(DeclaredGraph(registry), {last.name}) :
                x \in ReachPlus(DeclaredGraph(registry), x)

\* the tag of a direct dependency
TopLevelStatus(reg, dep) ==
    get_dependencies(reg, CHOOSE x \in RegisteredNames(reg) : dep \in Deps(reg, x),
                     FALSE, {}).info.dependencies[dep].status

RECURSIVE ExpandedUniformly(_, _)
\* every expanded rule of the entries has its own declared dependencies, and
\* nothing else, under it, each tagged as a direct dependency is
ExpandedUniformly(reg, entries) ==
    \A d \in DOMAIN entries :
        entries[d].dependencies.status = "info"
        => LET info == entries[d].dependencies
           IN  /\ info.name = d
               /\ DOMAIN info.extra = {}
               /\ DOMAIN info.dependencies = Deps(reg, d)
               /\ \A x \in DOMAIN info.dependencies :
                     info.dependencies[x].status = TopLevelStatus(reg, x)
               /\ ExpandedUniformly(reg, info.dependencies)

\* C20: in the recursive tree of any name, what is nested under a derived
\* dependency D is D's declared dependencies and nothing else, tagged as
\* direct dependencies are, whatever name the tree was asked for.
C20_NestedEntriesAreOwnDependencies ==
    (last.op = "get_dependencies" /\ last.flag /\ last.exc = NoExc)
    => ExpandedUniformly(registry, last.tree.entries)

\* C13: the payload of a computed rule is named as requested, and its attrs
\* are the rule's attrs overridden key by key by those of the DataArray the
\* func returned: the returned value on every key both have, the rule's own
\* keys kept.
C13_NameSetAttrsMerged ==
    last.op = "finalize"
    => /\ last.payload.name = last.name
       /\ DOMAIN last.payload.attrs = DOMAIN last.attrs \cup DOMAIN last.returned.attrs
       /\ \A key \in DOMAIN last.returned.attrs :
             last.payload.attrs[key] = last.returned.attrs[key]
       /\ \A key \in DOMAIN last.attrs \ DOMAIN last.returned.attrs :
             last.payload.attrs[key] = last.attrs[key]

\* C13 witness: the rule and the returned DataArray disagree on one key, the
\* rule alone has another, and the DataArray came back under another name.
C13_Witness ==
    /\ last.op = "finalize"
    /\ last.returned.name \notin {"None", last.name}
    /\ last.payload.name = last.name
    /\ \E key \in DOMAIN last.attrs \cap DOMAIN last.returned.attrs :
          /\ last.attrs[key] # last.returned.attrs[key]
          /\ last.payload.attrs[key] = last.returned.attrs[key]
    /\ \E key \in DOMAIN last.attrs \ DOMAIN last.returned.attrs :
          last.payload.attrs[key] = last.attrs[key]

RECURSIVE CyclesOnlyOnPath(_, _)
\* under the names of path, every derived entry is the cycle marker when its
\* name is on the path and is expanded otherwise
CyclesOnlyOnPath(entries, path) ==
    \A d \in DOMAIN entries :
        LET info == entries[d].dependencies
        IN  /\ info.status = "cycle_detected" => d \in path
            /\ entries[d].status = "derived_variable"
               => /\ info.status = IF d \in path THEN "cycle_detected" ELSE "info"
                  /\ info.status = "info"
                     => CyclesOnlyOnPath(info.dependencies, path \cup {d})

RECURSIVE HasCycleMarker(_)
HasCycleMarker(entries) ==
    \E d \in DOMAIN entries :
        \/ entries[d].dependencies.status = "cycle_detected"
        \/ /\ entries[d].dependencies.status = "info"
           /\ HasCycleMarker(entries[d].dependencies.dependencies)

\* C21: in the recursive tree, a derived dependency is the cycle marker only
\* where its name is already on the path from the root to it, and is expanded
\* everywhere else, also when a sibling branch expanded it; the tree of an
\* acyclic registry holds no cycle marker.
C21_CycleMarkerOnlyOnPath ==
    (last.op = "get_dependencies" /\ last.flag /\ last.exc = NoExc)
    => /\ CyclesOnlyOnPath(last.tree.entries, {last.name})
       /\ Acyclic(registry) => ~HasCycleMarker(last.tree.entries)

\* C21 witness: a diamond, the rule asked for depending on a rule and on a
\* dependency of that rule, which is expanded in both places.
C21_Witness ==
    /\ last.op = "get_dependencies" /\ last.flag /\ last.exc = NoExc
    /\ Acyclic(registry)
    /\ \E d, e \in DOMAIN last.tree.entries :
          /\ d # e
          /\ last.tree.entries[d].dependencies.status = "info"
          /\ last.tree.entries[e].dependencies.status = "info"
          /\ d \in DOMAIN last.tree.entries[e].dependencies.dependencies
          /\ last.tree.entries[e].dependencies.dependencies[d].dependencies.status = "info"

\* the names of the frames that are open
OpenNames(open) == {open[k].name : k \in DOMAIN open}

RECURSIVE Disciplined(_, _, _)
\* From event i on, open being the frames entered and not yet left, each with
\* its set on entry: a frame is entered with the names of the open frames,
\* holds these and its own name after its loop, and leaves with the set it
\* was entered with; no frame stays open.
Disciplined(events, i, open) ==
    IF i > Len(events) THEN open = <<>>
    ELSE LET e == events[i]
             top == open[Len(open)]
         IN  IF e.kind = "entry"
             THEN /\ e.stack = OpenNames(open)
                  /\ Disciplined(events, i + 1, Append(open, e))
             ELSE /\ open # <<>>
                  /\ top.name = e.name
                  /\ IF e.kind = "loop"
                     THEN /\ e.stack = OpenNames(open)
                          /\ Disciplined(events, i + 1, open)
                     ELSE /\ e.stack = top.stack
                          /\ e.stack = OpenNames(SubSeq(open, 1, Len(open) - 1))
                          /\ Disciplined(events, i + 1, SubSeq(open, 1, Len(open) - 1))

C23_FuncCalledAfterDependencies ==
    last.op = "resolve"
    => /\ GraphError(last.exc) => last.name \notin Range(last.calls)
       /\ \A x \in Range(last.calls) :
             \A d \in Deps(registry, x) : d \in ds \/ cache[d] # NoPayload

\* C23 witness: a resolution that computed one dependency of the rule, found
\* another one missing, and did not call the func of the rule.
C23_Witness ==
    /\ last.op = "resolve"
    /\ last.exc.type = "MissingDependencyError"
    /\ last.calls # <<>>
    /\ last.name \notin Range(last.calls)
    /\ \E d \in Deps(registry, last.name) : d \in Range(last.calls) /\ cache[d] # NoPayload

\* C25: for a registered name, the computable flag of get_status is the
\* value of the registry's _is_computable and the membership of the name in
\* list_computable(); a computable status has no missing name and no reason.
C25_StatusAgreesWithRegistry ==
    (last.op = "get_status" /\ Registered(registry, last.name))
    => /\ last.status.computable = _is_computable(registry, last.name, {})
       /\ last.status.computable <=> last.name \in Range(list_computable(registry))
       /\ last.status.computable
          => last.status.missing_dependencies = <<>> /\ last.status.reason = "none"

\* C25 witness: a rule with two missing dependencies, where the registry
\* stops at the first and the status names both.
C25_Witness ==
    /\ last.op = "get_status"
    /\ Registered(registry, last.name)
    /\ ~last.status.computable
    /\ Len(last.status.missing_dependencies) = 2
    /\ ~_is_computable(registry, last.name, {})
    /\ last.name \notin Range(list_computable(registry))

RECURSIVE TakenFromDataset(_)
\* every entry of a name of the dataset is a base variable, with nothing
\* under it, at every depth
TakenFromDataset(entries) ==
    \A d \in DOMAIN entries :
        /\ d \in ds => entries[d] = DependencyEntry("base_variable_in_dataset", NoInfo)
        /\ entries[d].dependencies.status = "info"
           => TakenFromDataset(entries[d].dependencies.dependencies)

\* C26: a dependency that is in the dataset is reported by get_dependencies
\* as a base variable of the dataset, without its rule being expanded, also
\* when a rule of that name is registered.
C26_DatasetNameIsBase ==
    (last.op = "get_dependencies" /\ last.exc = NoExc)
    => TakenFromDataset(IF last.flag THEN last.tree.entries
                        ELSE last.tree.info.dependencies)

\* how often the func of name was called in the resolution
TimesCalled(calls, name) == Cardinality({i \in DOMAIN calls : calls[i] = name})

QueryOps ==
    {"_is_computable", "get_status", "list_computable", "get_dependencies",
     "get_metadata", "search_variables"}

\* C28: get_status, list_computable, get_dependencies, get_metadata and
\* search_variables (and _is_computable) call no func, create no payload and
\* leave the cache and the registry as they are; a resolution leaves the
\* registry as it is.
C28_QueriesArePure ==
    [][/\ last'.op \in QueryOps
          => /\ cache' = cache
             /\ registry' = registry
             /\ nextId' = nextId
             /\ last'.calls = <<>>
       /\ last'.op = "resolve" => registry' = registry]_vars

\* C28 witness: the status of a rule that is computable and has a payload in
\* the cache, which get_status neither used nor touched.
C28_Witness ==
    /\ last.op = "get_status"
    /\ last.status.computable
    /\ cache[last.name] # NoPayload
    /\ \E d \in Deps(registry, last.name) : Registered(registry, d) /\ cache[d] # NoPayload

\* C30: register_standard_variables() raises nothing, whichever standard
\* variables are registered when it is called, and leaves every standard
\* variable registered.
C30_StandardRegistrationSkipsRegistered ==
    last.op = "register_standard_variables"
    => /\ last.exc = NoExc
       /\ \A i \in DOMAIN standard_vars : Registered(registry, standard_vars[i].name)

\* C29: while two threads resolve on one session, every entry of the cache
\* is a payload with its attrs merged and its name equal to its key, and a
\* thread ends with the circular-dependency error only when a cycle of rules
\* is reachable from the name it asked for.
C29_NoPartialEntryNoSpuriousCycle ==
    /\ \A key \in Names :
          cache[key] # NoPayload
          => /\ cache[key].name = key
             /\ threads.objects[cache[key].id] = [name |-> key, attrs |-> "merged"]
    /\ \A t \in ThreadIds :
          (threads.procs[t].exc.type = "ComputationError" /\ threads.procs[t].exc.circular)
          => \E y \in Closure(DerivedGraph(registry), {threads.procs[t].name}) :
                y \in ReachPlus(DerivedGraph(registry), y)

\* C29 witness: both threads asked for the same rule, both missed the cache
\* and called its func, each got its own payload, and the cache holds the
\* complete payload of one of them.
C29_Witness ==
    \E key \in Names :
        /\ \A t \in ThreadIds :
              /\ threads.procs[t].pc = "done"
              /\ threads.procs[t].name = key
              /\ threads.procs[t].exc = NoExc
              /\ key \in Range(threads.procs[t].calls)
        /\ threads.procs["t1"].value.id # threads.procs["t2"].value.id
        /\ cache[key] \in {threads.procs[t].value : t \in ThreadIds}
        /\ threads.objects[cache[key].id] = [name |-> key, attrs |-> "merged"]

\* the frames of a thread form descents along distinct names: a frame is
\* entered with the stack of its caller, which holds the caller's name, or
\* with an empty stack where a new descent starts (under list_all_computable
\* and for the cycle test of get_status), and adds its own name, which the
\* stack did not hold, when it goes on to its dependencies
DistinctPath(frames) ==
    /\ Len(frames) < MaxDepth
    /\ \A k \in DOMAIN frames :
          LET f == frames[k]
              fresh == k = 1 \/ frames[k - 1].name = "" \/ frames[k - 1].pc = "end"
              onEntry == IF fresh THEN {} ELSE frames[k - 1].resolving_stack
          IN  f.name # ""
              => /\ f.resolving_stack \subseteq RegisteredNames(registry)
                 /\ ~fresh => frames[k - 1].name \in onEntry
                 /\ \/ f.resolving_stack = onEntry /\ f.pc \in {"cache", "enter", "end"}
                    \/ /\ f.resolving_stack = onEntry \cup {f.name}
                       /\ f.name \notin onEntry
                       /\ f.pc \notin {"cache", "enter"}

====
